---- MODULE Spec2Model ----
(***************************************************************************)
(* Model of bioconda_utils/build.py: build() and test_recipes().           *)
(*                                                                         *)
(* test_recipes() collects recipes, builds the dependency graph, splits it *)
(* into chunks ("subdags"), picks the chunk named by SUBDAG, orders its    *)
(* packages topologically, calls build() for every target of every recipe, *)
(* reports, and uploads the packages on the master branch.                 *)
(*                                                                         *)
(* Python lists are sequences, 0-based indices of the source are kept in   *)
(* the variables and shifted by one where a sequence is indexed.           *)
(***************************************************************************)
EXTENDS Integers, Sequences, FiniteSets, TLC

\* ------------------------------------------------------------------------
\* Bounds and universes
\* ------------------------------------------------------------------------

\* Package names; one recipe per package, the recipe is named like its package.
Packages == {"a", "b", "c"}

\* Python's order on the package names (str.__lt__).
Ord == ("a" :> 1) @@ ("b" :> 2) @@ ("c" :> 3)

\* The environments of the EnvMatrix, in the order the matrix yields them.
EnvMatrices == {<<"e1">>, <<"e1", "e2">>}

\* Largest value of the SUBDAGS and SUBDAG environment variables explored.
MaxSubdags == 2

\* Longest list of recipes the globs yield (a recipe that two globs match is
\* listed twice).
MaxFound == 3

\* Largest number of targets (recipe, environment) a run has to build.
MaxTargets == 4

\* The package files that may lie in the conda-bld directory before the run,
\* left there by an earlier build.
OnDisk == {<<"a", "e1">>}

\* What os.environ holds for the run: TRAVIS_BRANCH, TRAVIS_PULL_REQUEST and
\* whether ANACONDA_TOKEN is set.
TravisEnvs ==
    {<<"master", "false", TRUE>>, <<"master", "false", FALSE>>,
     <<"master", "true", TRUE>>, <<"other", "false", TRUE>>}

\* ------------------------------------------------------------------------
\* Python helpers: sorted(), slices, flattening
\* ------------------------------------------------------------------------

Range(s) == {s[i] : i \in 1..Len(s)}

Perms(S) == {p \in [1..Cardinality(S) -> S] : Range(p) = S}

\* The lists of at most n elements of S.
Lists(S, n) == UNION {[1..k -> S] : k \in 0..n}

\* list.__lt__ on lists of package names: lexicographic, a proper prefix is less.
RECURSIVE ListLess(_, _)
ListLess(s, t) ==
    IF s = <<>> THEN t # <<>>
    ELSE IF t = <<>> THEN FALSE
    ELSE IF Ord[Head(s)] < Ord[Head(t)] THEN TRUE
    ELSE IF Ord[Head(t)] < Ord[Head(s)] THEN FALSE
    ELSE ListLess(Tail(s), Tail(t))

\* sorted(S) for an iterable of package names.
RECURSIVE SortedNames(_)
SortedNames(S) ==
    IF S = {} THEN <<>>
    ELSE LET m == CHOOSE x \in S : \A y \in S : Ord[x] <= Ord[y]
         IN  <<m>> \o SortedNames(S \ {m})

\* Insertion of a list into a sorted list of lists (stable).
RECURSIVE InsertList(_, _)
InsertList(x, ls) ==
    IF ls = <<>> THEN <<x>>
    ELSE IF ListLess(x, Head(ls)) THEN <<x>> \o ls
    ELSE <<Head(ls)>> \o InsertList(x, Tail(ls))

\* Mutant of SortedLists: the list is left in the order it was produced in.
SortedListsUnsorted(ls) == ls

\* sorted(ls) for a list of lists of package names.
RECURSIVE SortedLists(_)
SortedLists(ls) ==
    IF ls = <<>> THEN <<>>
    ELSE InsertList(Head(ls), SortedLists(Tail(ls)))

\* [n for l in ls for n in l]
RECURSIVE Flatten(_)
Flatten(ls) ==
    IF ls = <<>> THEN <<>> ELSE Head(ls) \o Flatten(Tail(ls))

\* Mutant of Stride: the contiguous slice ls[i:n] instead of every n-th list.
StrideSlice(ls, i, n) == [k \in 1..(IF n > i THEN (IF n < Len(ls) THEN n ELSE Len(ls)) - i ELSE 0) |-> ls[i + k]]

\* ls[i::n] with 0-based i, n >= 1.
RECURSIVE Stride(_, _, _)
Stride(ls, i, n) ==
    IF i >= Len(ls) THEN <<>>
    ELSE <<ls[i + 1]>> \o Stride(ls, i + n, n)

\* ------------------------------------------------------------------------
\* networkx: graphs, connected components, topological orders
\* ------------------------------------------------------------------------

\* A DiGraph: nodes and edges <<dependency, dependent>>.
Graph(nodes, edges) == [nodes |-> nodes, edges |-> edges]

NoGraph == Graph({}, {})

\* All sets of edges between different nodes of S.
EdgeSets(S) == SUBSET {e \in S \X S : e[1] # e[2]}

\* Nodes reachable from the nodes of S along the edges of E.
RECURSIVE Reach(_, _)
Reach(S, E) ==
    LET T == S \cup {e[2] : e \in {d \in E : d[1] \in S}}
    IN  IF T = S THEN S ELSE Reach(T, E)

\* Mutant of to_undirected: the edges keep their direction.
to_undirectedForgotten(g) == g

\* G.to_undirected(): every edge in both directions.
to_undirected(g) == Graph(g.nodes, g.edges \cup {<<e[2], e[1]>> : e \in g.edges})

HasCycle(g) == \E n \in g.nodes : n \in Reach({e[2] : e \in {d \in g.edges : d[1] = n}}, g.edges)

\* nx.connected_components(G): for each node in the graph's iteration order
\* that was not seen yet, yield the set of nodes reachable from it.
RECURSIVE ComponentsFrom(_, _, _)
ComponentsFrom(order, g, seen) ==
    IF order = <<>> THEN <<>>
    ELSE IF Head(order) \in seen THEN ComponentsFrom(Tail(order), g, seen)
    ELSE LET c == Reach({Head(order)}, g.edges)
         IN  <<c>> \o ComponentsFrom(Tail(order), g, seen \cup c)

connected_components(g, order) == ComponentsFrom(order, g, {})

\* dag.subgraph(nodes)
subgraph(g, nodes) ==
    Graph(g.nodes \cap nodes, {e \in g.edges : e[1] \in nodes /\ e[2] \in nodes})

\* The results nx.topological_sort(g) can give: the orders of all nodes of g
\* in which every edge points forward.  Which of them is returned depends on
\* the library version and on the graph's internal iteration order.
TopologicalSorts(g) ==
    {p \in Perms(g.nodes) :
        \A i, j \in 1..Len(p) : <<p[i], p[j]>> \in g.edges => i < j}

\* ------------------------------------------------------------------------
\* test_recipes: chunking of the graph (lines 208-226)
\* ------------------------------------------------------------------------

\* [[n] for n in nodes]
RECURSIVE Singletons(_)
Singletons(order) ==
    IF order = <<>> THEN <<>> ELSE <<<<Head(order)>>>> \o Singletons(Tail(order))

\* map(sorted, components)
RECURSIVE MapSorted(_)
MapSorted(cs) ==
    IF cs = <<>> THEN <<>> ELSE <<SortedNames(Head(cs))>> \o MapSorted(Tail(cs))

\* Mutant of Subdags: connected components in both modes.
SubdagsComponentsOnly(g, order, t_only) ==
    SortedLists(MapSorted(connected_components(to_undirected(g), order)))

\* Lines 209-215.  order is the order in which the graph enumerates its nodes.
Subdags(g, order, t_only) ==
    IF t_only
    THEN SortedLists(Singletons(order))
    ELSE SortedLists(MapSorted(connected_components(to_undirected(g), order)))

\* Mutant of Chunks: the subdags are dealt into subdags_n chunks even when
\* there are fewer subdags.
ChunksAlwaysDealt(sds, n) == [i \in 1..n |-> Flatten(Stride(sds, i - 1, n))]

\* Lines 217-221.
Chunks(sds, n) ==
    IF n < Len(sds)
    THEN [i \in 1..n |-> Flatten(Stride(sds, i - 1, n))]
    ELSE sds

\* ------------------------------------------------------------------------
\* Targets
\* ------------------------------------------------------------------------

\* name2recipes[package]: the recipes of a package.
name2recipes(package) == <<package>>

\* [(recipe, target) for recipe in rs for target in rt[recipe]], the order of
\* the loops of lines 257-258 and 286-287.
RECURSIVE TargetList(_, _)
TargetList(rs, rt) ==
    IF rs = <<>> THEN <<>>
    ELSE [i \in 1..Len(rt[Head(rs)]) |-> <<Head(rs), rt[Head(rs)][i]>>]
         \o TargetList(Tail(rs), rt)

\* [recipe for package in order for recipe in name2recipes[package]], line 229.
RECURSIVE RecipesOf(_)
RecipesOf(order) ==
    IF order = <<>> THEN <<>>
    ELSE name2recipes(Head(order)) \o RecipesOf(Tail(order))

\* ------------------------------------------------------------------------
\* The module's namespace
\* ------------------------------------------------------------------------

\* The global names build.py binds: its imports, logger and its two functions.
ModuleGlobals ==
    {"sp", "defaultdict", "os", "logging", "nx", "utils", "docker_utils",
     "pkg_test", "api", "logger", "build", "test_recipes"}

\* ------------------------------------------------------------------------
\* State
\* ------------------------------------------------------------------------

VARIABLES
    pc,              \* the place test_recipes has reached
    testonly,        \* argument testonly
    mulled_test,     \* argument mulled_test
    docker,          \* argument docker is not None
    env_matrix,      \* EnvMatrix(config['env_matrix']): the environments
    module_globals,  \* names bound in the module's namespace
    recipes,         \* the list recipes
    recipe_targets,  \* the dict recipe_targets: recipe -> list of environments
    deps,            \* the dependencies the recipes declare, as get_dag read them
    dag,             \* the graph returned by get_dag
    subdags_n,       \* int(SUBDAGS)
    subdag_i,        \* int(SUBDAG)
    chunks,          \* the list chunks
    pos,             \* number of targets the current loop has passed
    success,         \* the local success
    pkgs,            \* targets whose package file exists on disk
    calls,           \* collaborator invocations so far: <<op, target, outcome>>
    travis,          \* os.environ as lines 284-297 read it: TRAVIS_BRANCH,
                     \* TRAVIS_PULL_REQUEST, whether ANACONDA_TOKEN is set
    result           \* "running", "return <value>" or "raise <exception>"

vars == <<pc, testonly, mulled_test, docker, env_matrix, module_globals, recipes,
          recipe_targets, deps, dag, subdags_n, subdag_i, chunks, pos, success,
          pkgs, calls, travis, result>>

args == <<testonly, mulled_test, docker, env_matrix, module_globals>>

Targets == TargetList(recipes, recipe_targets)

\* The call test_recipes(..., mulled_test, testonly, docker) begins.
InitCall ==
    /\ pc = "collect"
    /\ testonly \in BOOLEAN
    /\ mulled_test \in BOOLEAN
    /\ docker \in BOOLEAN
    /\ env_matrix \in EnvMatrices
    /\ recipes = <<>>
    /\ recipe_targets = <<>>
    /\ deps = {}
    /\ dag = NoGraph
    /\ subdags_n = 1
    /\ subdag_i = 0
    /\ chunks = <<>>
    /\ pos = 0
    /\ success = TRUE
    /\ pkgs \in SUBSET OnDisk
    /\ calls = <<>>
    /\ travis \in TravisEnvs
    /\ result = "running"

Init ==
    /\ InitCall
    /\ module_globals = ModuleGlobals

\* A return or raise of test_recipes.
Finish(r) ==
    /\ pc' = "done"
    /\ result' = r

PyBool(b) == IF b THEN "True" ELSE "False"

\* ------------------------------------------------------------------------
\* test_recipes, lines 169-187: collect the recipes that are not blacklisted,
\* in the order utils.get_recipes yields them, glob after glob
\* ------------------------------------------------------------------------
Collect ==
    /\ pc = "collect"
    /\ \E found \in Lists(Packages, MaxFound) :
         /\ recipes' = found
         /\ IF found = <<>>
            THEN Finish("return None")
            ELSE pc' = "filter" /\ result' = result
    /\ UNCHANGED <<args, recipe_targets, deps, dag, subdags_n, subdag_i, chunks, pos,
                   success, pkgs, calls, travis>>

\* ------------------------------------------------------------------------
\* test_recipes, lines 189-194: utils.filter_recipes keeps the recipes that
\* have a target left to build, with their targets; recipes becomes the keys
\* of the dict, in the order filter_recipes yielded them
\* ------------------------------------------------------------------------
filter_recipes(kept, envs) == [r \in kept |-> envs]

Filter ==
    /\ pc = "filter"
    /\ \E kept \in SUBSET Range(recipes) : \E yielded \in Perms(kept) :
         /\ Cardinality(kept) * Len(env_matrix) <= MaxTargets
         /\ recipe_targets' = filter_recipes(kept, env_matrix)
         /\ recipes' = yielded
    /\ pc' = "get_dag"
    /\ UNCHANGED <<args, deps, dag, subdags_n, subdag_i, chunks, pos, success, pkgs,
                   calls, travis, result>>

\* ------------------------------------------------------------------------
\* utils.get_dag: nodes are the packages of the recipes, an edge A -> B for
\* every dependency A that B declares when both are nodes; a graph with a
\* cycle is rejected with CyclicDependency
\* ------------------------------------------------------------------------
DagOf(rs, declared) ==
    Graph(Range(rs), {e \in declared : e[1] \in Range(rs) /\ e[2] \in Range(rs)})

get_dag(rs, declared) ==
    IF HasCycle(DagOf(rs, declared))
    THEN [raised |-> TRUE, dag |-> NoGraph]
    ELSE [raised |-> FALSE, dag |-> DagOf(rs, declared)]

\* ------------------------------------------------------------------------
\* test_recipes, lines 196-203: the call of get_dag is not guarded, so its
\* exception leaves test_recipes; an empty graph is "Nothing to be done"
\* ------------------------------------------------------------------------
\* Mutant of AfterGetDag: the exception of get_dag is swallowed and the run
\* ends as "Nothing to be done".
AfterGetDagSwallow(got) ==
    /\ dag' = got.dag
    /\ IF got.raised \/ got.dag.nodes = {}
       THEN Finish("return True")
       ELSE pc' = "partition" /\ result' = result

AfterGetDag(got) ==
    IF got.raised
    THEN Finish("raise CyclicDependency") /\ dag' = dag
    ELSE /\ dag' = got.dag
         /\ IF got.dag.nodes = {}
            THEN Finish("return True")
            ELSE pc' = "partition" /\ result' = result

GetDag ==
    /\ pc = "get_dag"
    /\ \E declared \in EdgeSets(Range(recipes)) :
         /\ deps' = declared
         /\ AfterGetDag(get_dag(recipes, declared))
    /\ UNCHANGED <<args, recipes, recipe_targets, subdags_n, subdag_i, chunks,
                   pos, success, pkgs, calls, travis>>

\* ------------------------------------------------------------------------
\* test_recipes, lines 205-224: read SUBDAGS and SUBDAG, chunk the graph,
\* "Nothing to be done" when the index names no chunk
\* ------------------------------------------------------------------------
\* Mutant of InRange: > instead of >= in line 222.
InRangeOffByOne(i, cs) == i <= Len(cs)

\* Line 222, negated: the index names a chunk.
InRange(i, cs) == i < Len(cs)

Partition ==
    /\ pc = "partition"
    /\ \E n \in 1..MaxSubdags, i \in 0..MaxSubdags, order \in Perms(dag.nodes) :
         /\ subdags_n' = n
         /\ subdag_i' = i
         /\ chunks' = Chunks(Subdags(dag, order, testonly), n)
         /\ IF InRange(i, chunks')
            THEN pc' = "plan" /\ result' = result
            ELSE Finish("return True")
    /\ UNCHANGED <<args, recipes, recipe_targets, deps, dag, pos, success, pkgs,
                   calls, travis>>

\* ------------------------------------------------------------------------
\* test_recipes, lines 226-254: the subgraph of the selected chunk and the
\* recipes of its packages in topological order
\* ------------------------------------------------------------------------
Selected == Range(chunks[subdag_i + 1])

\* Mutant of PlannedOrders: the chunk in its own (sorted) order, unsorted by
\* dependencies.
PlannedOrdersChunkOrder(g, nodes) == {SortedNames(nodes)}

PlannedOrders(g, nodes) == TopologicalSorts(subgraph(g, nodes))

Plan ==
    /\ pc = "plan"
    /\ IF PlannedOrders(dag, Selected) = {}
       THEN Finish("raise NetworkXUnfeasible") /\ recipes' = recipes
       ELSE /\ \E order \in PlannedOrders(dag, Selected) :
                 recipes' = RecipesOf(order)
            /\ pc' = "build"
            /\ result' = result
    /\ pos' = 0
    /\ UNCHANGED <<args, recipe_targets, deps, dag, subdags_n, subdag_i, chunks,
                   success, pkgs, calls, travis>>

\* ------------------------------------------------------------------------
\* build(), lines 14-130: one recipe, one environment
\* ------------------------------------------------------------------------

\* What the builder can do: raise an exception line 104 catches
\* (DockerCalledProcessError or CalledProcessError), raise another one (the
\* process cannot be started: FileNotFoundError), return without having
\* written the package file, or return with the package file written.
BuilderOutcomes(with_docker) == {"raise", "not started", "nopkg", "ok"}

\* Return codes of pkg_test.test_package.
ReturnCodes == {0, 1}

Call(op, t, outcome) == [op |-> op, target |-> t, outcome |-> outcome]

\* Mutant of RunsMulledTest: no mulled test in testonly runs.
RunsMulledTestUnlessTestonly(mulled, t_only) == mulled /\ ~t_only

\* Lines 111-112: without mulled_test the build result is returned and the
\* tester is not called.
RunsMulledTest(mulled, t_only) == mulled

\* Line 130.
BuildReturn(test_success, build_success) == test_success /\ build_success

\* Mutant of build: the mulled test is run although the builder failed.
buildTestsAfterFailure(t, t_only, mulled, with_docker, bo, rc, on_disk) ==
    LET failed_build == bo # "ok" /\ (bo # "nopkg" \/ (with_docker /\ ~on_disk))
        c == Call("build", t, IF failed_build THEN "fail" ELSE "ok")
    IN  IF ~RunsMulledTest(mulled, t_only)
        THEN [raised |-> FALSE, ret |-> ~failed_build, calls |-> <<c>>,
              pkg |-> bo = "ok" \/ on_disk]
        ELSE [raised |-> FALSE, ret |-> BuildReturn(rc = 0, ~failed_build),
              calls |-> <<c, Call("test", t, IF rc = 0 THEN "ok" ELSE "fail")>>,
              pkg |-> bo = "ok" \/ on_disk]

\* build() for builder outcome bo and test return code rc, on_disk telling
\* whether the package file exists before the call.  raised: an exception
\* leaves build(); ret: the value returned otherwise; calls: the collaborator
\* calls made; pkg: whether the package file exists afterwards.
\* Only the docker branch looks for the file (line 84); the local branch runs
\* the same command with and without testonly (line 94).  Lines 84-86 and
\* 104-109 both end the call with False: "fail" in calls.
build(t, t_only, mulled, with_docker, bo, rc, on_disk) ==
    LET exists == bo = "ok" \/ on_disk IN
    IF bo = "not started"
    THEN [raised |-> TRUE, ret |-> FALSE,
          calls |-> <<Call("build", t, "not started")>>, pkg |-> on_disk]
    ELSE IF bo = "raise" \/ (with_docker /\ ~exists)
    THEN [raised |-> FALSE, ret |-> FALSE,
          calls |-> <<Call("build", t, "fail")>>, pkg |-> on_disk]
    ELSE IF ~RunsMulledTest(mulled, t_only)
    THEN [raised |-> FALSE, ret |-> TRUE,
          calls |-> <<Call("build", t, "ok")>>, pkg |-> exists]
    ELSE [raised |-> FALSE, ret |-> BuildReturn(rc = 0, TRUE),
          calls |-> <<Call("build", t, "ok"),
                      Call("test", t, IF rc = 0 THEN "ok" ELSE "fail")>>,
          pkg |-> exists]

\* ------------------------------------------------------------------------
\* test_recipes, lines 256-268: the build loop
\* ------------------------------------------------------------------------

\* Line 259: success &= build(...)
Accumulate(s, ret) == s /\ ret

\* The for loops of lines 257-258 go on to the next target whatever build()
\* returned; n is the number of targets.
LoopAdvance(p, ret, n) == p + 1

\* An exception build() does not catch leaves test_recipes as well.
Build ==
    /\ pc = "build"
    /\ pos < Len(Targets)
    /\ \E bo \in BuilderOutcomes(docker), rc \in ReturnCodes :
         LET t == Targets[pos + 1]
             b == build(t, testonly, mulled_test, docker, bo, rc, t \in pkgs)
         IN
         /\ calls' = calls \o b.calls
         /\ pkgs' = IF b.pkg THEN pkgs \cup {t} ELSE pkgs \ {t}
         /\ IF b.raised
            THEN /\ Finish("raise FileNotFoundError")
                 /\ UNCHANGED <<success, pos>>
            ELSE /\ success' = Accumulate(success, b.ret)
                 /\ pos' = LoopAdvance(pos, b.ret, Len(Targets))
                 /\ UNCHANGED <<pc, result>>
    /\ UNCHANGED <<args, recipes, recipe_targets, deps, dag, subdags_n,
                   subdag_i, chunks, travis>>

\* ------------------------------------------------------------------------
\* test_recipes, lines 270-280: the report.  failed and skip_dependent are
\* read as globals; build.py binds neither, and nothing appends to them, so
\* line 270 raises NameError.
\* ------------------------------------------------------------------------
\* Mutant of Bound: the module binds the two names the report reads.
BoundReportNames(name) == name \in module_globals \cup {"failed", "skip_dependent"}

Bound(name) == name \in module_globals

\* Mutant of Report: the report raises nothing and the upload loop follows
\* it at once, the conditions of lines 282-285 missing.
ReportSkipsGate ==
    /\ pc = "build"
    /\ pos = Len(Targets)
    /\ pc' = "upload"
    /\ pos' = 0
    /\ UNCHANGED <<args, recipes, recipe_targets, deps, dag, subdags_n,
                   subdag_i, chunks, success, pkgs, calls, travis, result>>

Report ==
    /\ pc = "build"
    /\ pos = Len(Targets)
    /\ IF Bound("failed")
       THEN pc' = "gate" /\ result' = result
       ELSE Finish("raise NameError")
    /\ UNCHANGED <<args, recipes, recipe_targets, deps, dag, subdags_n,
                   subdag_i, chunks, pos, success, pkgs, calls, travis>>

\* ------------------------------------------------------------------------
\* test_recipes, lines 282-285: uploads happen when not testonly, on the
\* master branch and outside pull requests
\* ------------------------------------------------------------------------
PublishEligible(t_only, env) ==
    ~t_only /\ env[1] = "master" /\ env[2] = "false"

Gate ==
    /\ pc = "gate"
    /\ IF PublishEligible(testonly, travis)
       THEN pc' = "upload" /\ result' = result
       ELSE Finish("return " \o PyBool(success))
    /\ pos' = 0
    /\ UNCHANGED <<args, recipes, recipe_targets, deps, dag, subdags_n,
                   subdag_i, chunks, success, pkgs, calls, travis>>

\* ------------------------------------------------------------------------
\* test_recipes, lines 286-314: the upload loop
\* ------------------------------------------------------------------------

\* anaconda upload: exit 0, CalledProcessError whose output says "already
\* exists", CalledProcessError with other output, or the process cannot be
\* started (FileNotFoundError).  Without ANACONDA_TOKEN the argument list of
\* line 296 holds None and sp.run raises TypeError.
UploadOutcomes(token) ==
    IF token
    THEN {"ok", "already exists", "error", "not started"}
    ELSE {"no token"}

\* Lines 302-309: what the except clause does with a CalledProcessError.
\* Line 303 reads sys.stderr before the output is examined.
UploadHandler(o) ==
    IF ~Bound("sys") THEN "raise NameError"
    ELSE IF o = "already exists" THEN "pass"
    ELSE "raise CalledProcessError"

\* Lines 294-309: how the try statement ends for upload outcome o; only
\* CalledProcessError is caught.
UploadEnds(o) ==
    IF o = "ok" THEN "pass"
    ELSE IF o = "not started" THEN "raise FileNotFoundError"
    ELSE IF o = "no token" THEN "raise TypeError"
    ELSE UploadHandler(o)

Upload ==
    /\ pc = "upload"
    /\ pos < Len(Targets)
    /\ LET t == Targets[pos + 1] IN
       IF t \in pkgs
       THEN \E o \in UploadOutcomes(travis[3]) :
              /\ calls' = Append(calls, Call("upload", t, o))
              /\ success' = success
              /\ IF UploadEnds(o) = "pass"
                 THEN pos' = pos + 1 /\ pc' = pc /\ result' = result
                 ELSE pos' = pos /\ Finish(UploadEnds(o))
       ELSE /\ success' = FALSE
            /\ pos' = pos + 1
            /\ UNCHANGED <<calls, pc, result>>
    /\ UNCHANGED <<args, recipes, recipe_targets, deps, dag, subdags_n,
                   subdag_i, chunks, pkgs, travis>>

\* test_recipes, line 315.
Return ==
    /\ pc = "upload"
    /\ pos = Len(Targets)
    /\ Finish("return " \o PyBool(success))
    /\ UNCHANGED <<args, recipes, recipe_targets, deps, dag, subdags_n,
                   subdag_i, chunks, pos, success, pkgs, calls, travis>>

\* ------------------------------------------------------------------------
\* Specifications
\* ------------------------------------------------------------------------

\* test_recipes, lines 270-315: what follows the build loop, one step at a
\* time.  Report raises in every run of the module, so the steps after it
\* are never taken.
AfterBuildLoop ==
    IF pc = "build" THEN Report
    ELSE IF pc = "gate" THEN Gate
    ELSE IF pc = "upload" /\ pos < Len(Targets) THEN Upload
    ELSE Return

Next ==
    \/ Collect
    \/ Filter
    \/ GetDag
    \/ Partition
    \/ Plan
    \/ Build
    \/ AfterBuildLoop

Spec == Init /\ [][Next]_vars

\* ------------------------------------------------------------------------
\* Vocabulary of the properties
\* ------------------------------------------------------------------------

\* The chunks have been computed (a graph that reaches line 208 has nodes).
Chunked == chunks # <<>>

\* The chunks have been computed and no collaborator has been called yet.
\* chunks is not assigned after line 221, so every value it ever has is seen
\* in such a state.
FreshlyChunked == Chunked /\ calls = <<>>

\* Line 229 has run: recipes holds the planned order of the selected chunk.
Planned ==
    /\ Chunked
    /\ subdag_i < Len(chunks)
    /\ pc # "plan"
    /\ result # "raise NetworkXUnfeasible"

\* The build loop of lines 257-268 has been left.
LoopLeft == Planned /\ (pc # "build" \/ pos = Len(Targets))

\* The builder could not be started and its exception has ended the run.
BuildAborted ==
    \E k \in 1..Len(calls) : calls[k].op = "build" /\ calls[k].outcome = "not started"

\* The build loop has completed: every call of build() has returned.
LoopDone == LoopLeft /\ ~BuildAborted

PkgOf(t) == t[1]

\* B depends on A, directly or through other packages of the graph.
DependsOn(B, A) == B # A /\ B \in Reach({A}, dag.edges)

IsFailure(c) == c.op \in {"build", "test"} /\ c.outcome = "fail"

BuildCalled(t) == \E k \in 1..Len(calls) : calls[k].op = "build" /\ calls[k].target = t

Position(seq, x) == CHOOSE k \in 1..Len(seq) : seq[k] = x

\* The ways a list of lists holds a node: (list, place) pairs.
Places(ls, node) ==
    {p \in (1..Len(ls)) \X (1..Cardinality(Packages)) :
        p[2] <= Len(ls[p[1]]) /\ ls[p[1]][p[2]] = node}

\* ------------------------------------------------------------------------
\* C1  Partition completeness
\* ------------------------------------------------------------------------

\* C1: once computed, the chunks are a partition of the graph's nodes: every
\* node of the graph is in exactly one chunk, exactly once, and the chunks
\* hold nothing else, for every graph, SUBDAGS >= 1 and both modes.
C1_PartitionComplete ==
    FreshlyChunked =>
        /\ \A node \in dag.nodes : Cardinality(Places(chunks, node)) = 1
        /\ \A k \in 1..Len(chunks) : Range(chunks[k]) \subseteq dag.nodes

\* Three separate packages dealt round-robin into two chunks.
C1_Witness ==
    /\ Chunked
    /\ ~testonly
    /\ dag.nodes = Packages
    /\ dag.edges = {}
    /\ subdags_n = 2
    /\ chunks = << <<"a", "c">>, <<"b">> >>

\* ------------------------------------------------------------------------
\* C2  Topological validity of the execution
\* ------------------------------------------------------------------------

\* C2: for every edge A -> B inside the selected chunk, A precedes B in the
\* planned order, every build and test call for a target of A comes before
\* the first build call for a target of B, and one target is handled at a
\* time: a test call directly follows the build call of its own target, and
\* a build call is the first call for its target.
C2_TopologicalExecution ==
    Planned =>
        /\ \A e \in dag.edges :
             (e[1] \in Selected /\ e[2] \in Selected) =>
                 /\ Position(recipes, e[1]) < Position(recipes, e[2])
                 /\ \A i, j \in 1..Len(calls) :
                      ( /\ calls[i].op \in {"build", "test"}
                        /\ PkgOf(calls[i].target) = e[1]
                        /\ calls[j].op = "build"
                        /\ PkgOf(calls[j].target) = e[2] ) => i < j
        /\ \A j \in 1..Len(calls) :
             /\ calls[j].op = "test" =>
                   /\ j > 1
                   /\ calls[j - 1].op = "build"
                   /\ calls[j - 1].target = calls[j].target
             /\ calls[j].op = "build" =>
                   \A i \in 1..(j - 1) : calls[i].target # calls[j].target

\* a depends on c; the two targets of c and then the two of a were built and
\* tested.
C2_Witness ==
    /\ Planned
    /\ dag.edges = {<<"c", "a">>}
    /\ Selected = {"a", "c"}
    /\ mulled_test
    /\ Len(env_matrix) = 2
    /\ pos = Len(Targets)
    /\ Len(calls) = 8

\* ------------------------------------------------------------------------
\* C3  Skip propagation
\* ------------------------------------------------------------------------

\* C3: after the build or test of a target of A has failed, the builder is
\* never called for a target of a package that depends on A.
C3_SkipPropagation ==
    \A i, j \in 1..Len(calls) :
        ( /\ i < j
          /\ IsFailure(calls[i])
          /\ calls[j].op = "build" )
        => ~DependsOn(PkgOf(calls[j].target), PkgOf(calls[i].target))

\* ------------------------------------------------------------------------
\* C4  Final verdict
\* ------------------------------------------------------------------------

\* What the calls say about a target.
Status(t) ==
    IF \E k \in 1..Len(calls) : calls[k].target = t /\ IsFailure(calls[k])
    THEN "failed"
    ELSE IF BuildCalled(t) THEN "success" ELSE "pending"

AllSucceeded == \A t \in Range(Targets) : Status(t) = "success"

\* C4: a run that executed a shard, every call of build() returning, returns
\* True when every target of the shard succeeded and False otherwise.
C4_FinalVerdict ==
    (LoopDone /\ pc = "done") => result = "return " \o PyBool(AllSucceeded)

\* ------------------------------------------------------------------------
\* C5  Cycle rejection
\* ------------------------------------------------------------------------

\* C5: when the declared dependencies of the recipes form a cycle, wherever
\* in the graph, the run has ended with CyclicDependency and no collaborator
\* was ever called.
C5_CycleRejected ==
    HasCycle(Graph(Packages, deps)) =>
        /\ pc = "done"
        /\ result = "raise CyclicDependency"
        /\ calls = <<>>

\* a and b depend on each other, c stands alone.
C5_Witness ==
    /\ deps = {<<"a", "b">>, <<"b", "a">>}
    /\ Range(recipes) = Packages
    /\ result = "raise CyclicDependency"

\* ------------------------------------------------------------------------
\* C6  Shard index out of range
\* ------------------------------------------------------------------------

\* C6: when SUBDAG is not less than the number of chunks, the run has ended
\* with the result True and no collaborator was called.
C6_OutOfRangeNothingToDo ==
    (Chunked /\ subdag_i >= Len(chunks)) =>
        /\ pc = "done"
        /\ result = "return True"
        /\ calls = <<>>

\* Two chunks, index 2.
C6_Witness ==
    /\ Chunked
    /\ Len(chunks) = 2
    /\ subdag_i = 2
    /\ result = "return True"

\* ------------------------------------------------------------------------
\* C7  Determinism of the shard contents
\* ------------------------------------------------------------------------

\* C7: the node set of the selected chunk is the one every enumeration order
\* of the graph's nodes (and so of its components) leads to, for the same
\* graph, SUBDAGS and SUBDAG.
C7_ShardDeterminism ==
    (FreshlyChunked /\ subdag_i < Len(chunks)) =>
        \A order \in Perms(dag.nodes) :
            LET other == Chunks(Subdags(dag, order, testonly), subdags_n)
            IN  /\ subdag_i < Len(other)
                /\ Range(other[subdag_i + 1]) = Selected

\* Components {a, c} and {b} with two chunks, the second selected.
C7_Witness ==
    /\ Chunked
    /\ ~testonly
    /\ dag.edges = {<<"c", "a">>}
    /\ dag.nodes = Packages
    /\ subdags_n = 2
    /\ subdag_i = 1
    /\ Selected = {"b"}

\* ------------------------------------------------------------------------
\* C8, C9  Upload failures
\* ------------------------------------------------------------------------

UploadCalled(t) == \E k \in 1..Len(calls) : calls[k].op = "upload" /\ calls[k].target = t

UploadOutcomeSeen(o) == \E k \in 1..Len(calls) : calls[k].op = "upload" /\ calls[k].outcome = o

Returned == result \in {"return True", "return False"}

\* An upload ended otherwise than with exit 0 or "already exists".
UploadFailedOtherwise ==
    \E k \in 1..Len(calls) :
        calls[k].op = "upload" /\ calls[k].outcome \notin {"ok", "already exists"}

\* C8: a run in which an upload failed with "already exists", and no upload
\* failed otherwise, ends by returning a verdict after the uploader was called
\* for every target whose package exists, and the verdict is False only if
\* a build or test failed.
C8_AlreadyExistsIsSuccess ==
    (pc = "done" /\ UploadOutcomeSeen("already exists") /\ ~UploadFailedOtherwise) =>
        /\ Returned
        /\ \A t \in Range(Targets) : t \in pkgs => UploadCalled(t)
        /\ result = "return False" => ~AllSucceeded

\* C9: a run in which an upload failed for another reason than "already
\* exists" still ends by returning a verdict, after the uploader was called
\* for every target whose package exists.
C9_UploadFailureNoAbort ==
    (pc = "done" /\ UploadOutcomeSeen("error")) =>
        /\ Returned
        /\ \A t \in Range(Targets) : t \in pkgs => UploadCalled(t)

\* ------------------------------------------------------------------------
\* C10  Build and test failures do not abort the run
\* ------------------------------------------------------------------------

FailedPackages == {PkgOf(calls[k].target) : k \in {i \in 1..Len(calls) : IsFailure(calls[i])}}

\* C10: no failure of a target makes the loop stop: when the build loop has
\* been left it was left at its end, and the builder has been called for
\* every target of the planned order whose package does not depend on a
\* package with a failed target.
C10_FailuresDoNotAbort ==
    LoopLeft =>
        /\ pos = Len(Targets)
        /\ \A t \in Range(Targets) :
             (\A f \in FailedPackages : ~DependsOn(PkgOf(t), f)) => BuildCalled(t)

\* ------------------------------------------------------------------------
\* C11  A failed build ends the target
\* ------------------------------------------------------------------------

BuildFailed(t) ==
    \E k \in 1..Len(calls) :
        calls[k].op = "build" /\ calls[k].target = t /\ calls[k].outcome = "fail"

\* C11: for a target whose build step failed, neither the tester nor the
\* uploader is ever called.
C11_FailedBuildShortCircuits ==
    \A k \in 1..Len(calls) :
        calls[k].op \in {"test", "upload"} => ~BuildFailed(calls[k].target)

\* With the docker builder and the mulled test on, a's build failed and b
\* was built and tested after it; the run has ended.
C11_Witness ==
    /\ pc = "done"
    /\ docker
    /\ mulled_test
    /\ recipes = <<"a", "b">>
    /\ Len(env_matrix) = 1
    /\ calls = << Call("build", <<"a", "e1">>, "fail"),
                  Call("build", <<"b", "e1">>, "ok"),
                  Call("test", <<"b", "e1">>, "ok") >>

\* ------------------------------------------------------------------------
\* C12  Publish gating
\* ------------------------------------------------------------------------

\* C12: the uploader is called only in runs that are not testonly, on the
\* master branch and outside pull requests, and for a target only after the
\* build call and the test call of that target.
C12_PublishGating ==
    \A k \in 1..Len(calls) :
        calls[k].op = "upload" =>
            /\ ~testonly
            /\ travis[1] = "master"
            /\ travis[2] = "false"
            /\ \E j \in 1..(k - 1) :
                 calls[j].op = "build" /\ calls[j].target = calls[k].target
            /\ \A j \in 1..Len(calls) :
                 (calls[j].op \in {"build", "test"} /\ calls[j].target = calls[k].target)
                 => j < k

\* A run for a pull request, not testonly: a was built and tested, its
\* package lies on disk, and the run has ended without an upload.
C12_Witness ==
    /\ pc = "done"
    /\ ~testonly
    /\ travis = <<"master", "true", TRUE>>
    /\ <<"a", "e1">> \in pkgs
    /\ calls = << Call("build", <<"a", "e1">>, "ok"),
                  Call("test", <<"a", "e1">>, "ok") >>

\* ------------------------------------------------------------------------
\* C13  The run yields a verdict
\* ------------------------------------------------------------------------

\* C13: a run whose build loop has completed ends by returning a boolean;
\* the report raises nothing.
C13_VerdictAfterLoop ==
    (LoopDone /\ pc = "done") => Returned

\* ------------------------------------------------------------------------
\* C14  Scenario: a -> b -> c with SUBDAGS = 2
\* ------------------------------------------------------------------------

ChainGraph == Graph(Packages, {<<"a", "b">>, <<"b", "c">>})

InScenario == Chunked /\ dag = ChainGraph /\ subdags_n = 2

\* The run ended as "Nothing to be done".
NothingToDo == pc = "done" /\ result = "return True" /\ calls = <<>>

\* The run goes on with the selected chunk, and what it plans is that chunk.
ExecutesShard ==
    /\ ~NothingToDo
    /\ subdag_i < Len(chunks)
    /\ Planned => (recipes # <<>> /\ Range(recipes) = Selected)

\* C14 as claimed: in the scenario there are two non-empty chunks that
\* partition {a, b, c}, indices 0 and 1 execute a non-empty plan and index 2
\* is "Nothing to be done".
C14_ScenarioAsClaimed ==
    InScenario =>
        /\ Len(chunks) = 2
        /\ chunks[1] # <<>> /\ chunks[2] # <<>>
        /\ Range(chunks[1]) \cup Range(chunks[2]) = Packages
        /\ Range(chunks[1]) \cap Range(chunks[2]) = {}
        /\ subdag_i \in {0, 1} => ExecutesShard
        /\ subdag_i = 2 => NothingToDo

\* C14 amended: in the scenario, a testonly run has the chunks [a, c] and [b],
\* indices 0 and 1 execute a non-empty plan and index 2 is "Nothing to be
\* done"; a run that is not testonly has the single chunk [a, b, c], index 0
\* executes it and indices 1 and 2 are "Nothing to be done".
C14_Scenario ==
    InScenario =>
        IF testonly
        THEN /\ chunks = << <<"a", "c">>, <<"b">> >>
             /\ subdag_i \in {0, 1} => ExecutesShard
             /\ subdag_i = 2 => NothingToDo
        ELSE /\ chunks = << <<"a", "b", "c">> >>
             /\ subdag_i = 0 => ExecutesShard
             /\ subdag_i \in {1, 2} => NothingToDo

\* The testonly run with index 1 has built b.
C14_Witness ==
    /\ InScenario
    /\ testonly
    /\ subdag_i = 1
    /\ recipes = <<"b">>
    /\ BuildCalled(<<"b", "e1">>)

\* ------------------------------------------------------------------------
\* C15  Dependency-closed shards
\* ------------------------------------------------------------------------

\* Both ends of every edge of the graph are in the same chunks.
DependencyClosed ==
    \A e \in dag.edges : \A k \in 1..Len(chunks) :
        e[1] \in Range(chunks[k]) <=> e[2] \in Range(chunks[k])

\* C15 as claimed: every chunk is dependency-closed, in both modes.
C15_ClosedInBothModes == FreshlyChunked => DependencyClosed

\* C15 amended: in a run that is not testonly every chunk is
\* dependency-closed.
C15_ClosedInComponentMode == (FreshlyChunked /\ ~testonly) => DependencyClosed

\* b depends on a, c stands alone, two chunks.
C15_Witness ==
    /\ FreshlyChunked
    /\ ~testonly
    /\ dag = Graph(Packages, {<<"a", "b">>})
    /\ chunks = << <<"a", "b">>, <<"c">> >>

\* ------------------------------------------------------------------------
\* C16  Number of shards
\* ------------------------------------------------------------------------

\* The natural groups of the graph: its nodes when testonly, else its
\* weakly connected components.
NaturalGroups ==
    IF testonly
    THEN {{n} : n \in dag.nodes}
    ELSE {Reach({n}, to_undirected(dag).edges) : n \in dag.nodes}

Min(x, y) == IF x < y THEN x ELSE y

\* C16: there are min(SUBDAGS, number of natural groups) chunks and none of
\* them is empty.
C16_ShardCount ==
    FreshlyChunked =>
        /\ Len(chunks) = Min(subdags_n, Cardinality(NaturalGroups))
        /\ \A k \in 1..Len(chunks) : chunks[k] # <<>>

\* More shards asked for than there are groups: one component, SUBDAGS = 2.
C16_Witness ==
    /\ FreshlyChunked
    /\ ~testonly
    /\ dag = ChainGraph
    /\ subdags_n = 2
    /\ Len(chunks) = 1

\* ------------------------------------------------------------------------
\* C17  The mulled test in testonly runs
\* ------------------------------------------------------------------------

TestCalled(t) == \E k \in 1..Len(calls) : calls[k].op = "test" /\ calls[k].target = t

BuildSucceeded(t) ==
    \E k \in 1..Len(calls) :
        calls[k].op = "build" /\ calls[k].target = t /\ calls[k].outcome = "ok"

\* C17 as claimed: in a testonly run the tester is never called.
C17_NoMulledTestWhenTestonly ==
    testonly => \A k \in 1..Len(calls) : calls[k].op # "test"

\* C17 amended: in a testonly run the tester is called for a target exactly
\* when mulled_test is on and the build step of the target succeeded.
C17_MulledTestFollowsOption ==
    testonly =>
        \A k \in 1..Len(calls) :
            LET t == calls[k].target
            IN  TestCalled(t) <=> (mulled_test /\ BuildSucceeded(t))

\* A testonly run with mulled_test on tested a after its build step.
C17_Witness ==
    /\ LoopDone
    /\ testonly
    /\ mulled_test
    /\ calls = << Call("build", <<"a", "e1">>, "ok"),
                  Call("test", <<"a", "e1">>, "fail") >>

\* ------------------------------------------------------------------------
\* C18  Stable execution order
\* ------------------------------------------------------------------------

\* The topological order of g that takes, among the nodes whose dependencies
\* are all placed, the one with the least name.
RECURSIVE NameOrderedSort(_)
NameOrderedSort(g) ==
    IF g.nodes = {} THEN <<>>
    ELSE LET ready == {n \in g.nodes : ~\E e \in g.edges : e[2] = n}
             m == CHOOSE x \in ready : \A y \in ready : Ord[x] <= Ord[y]
         IN  <<m>> \o NameOrderedSort(subgraph(g, g.nodes \ {m}))

\* C18: the planned order of the selected chunk is determined by the edges
\* and the nodes of the chunk, ties going to the least package name.
C18_StableOrder ==
    Planned => recipes = RecipesOf(NameOrderedSort(subgraph(dag, Selected)))

\* ------------------------------------------------------------------------
\* C19  No failed target is published
\* ------------------------------------------------------------------------

\* C19: the uploader is never called for a target for which build() returned
\* False, be it for the build step or for the mulled test.
C19_NoFailedTargetUploaded ==
    \A k \in 1..Len(calls) :
        calls[k].op = "upload" => Status(calls[k].target) = "success"

\* A publish-eligible run, not testonly: b was built, its mulled test failed,
\* its package lies on disk, and the run has ended without an upload.
C19_Witness ==
    /\ pc = "done"
    /\ ~testonly
    /\ PublishEligible(testonly, travis)
    /\ <<"b", "e1">> \in pkgs
    /\ calls = << Call("build", <<"b", "e1">>, "ok"),
                  Call("test", <<"b", "e1">>, "fail") >>

\* ------------------------------------------------------------------------
\* C20  The "Nothing to be done" exits
\* ------------------------------------------------------------------------

\* test_recipes has returned from one of the exits of lines 185-187, 198-200
\* and 222-224.
EarlyExit == pc = "done" /\ ~Planned /\ result \in {"return None", "return True"}

\* C20: every "Nothing to be done" exit returns True and has called no
\* collaborator.
C20_UniformNothingToDo ==
    EarlyExit => (result = "return True" /\ calls = <<>>)

====
